---- MODULE Spec2Model ----
(***************************************************************************)
(* Model of decorator_include.py: the DecoratedPatterns wrapper (a lazy     *)
(* proxy over a URL configuration that decorates every view) and the        *)
(* decorator_include entry point.                                            *)
(*                                                                           *)
(* Python values are tagged records [t, v, w]: t is the type tag, v the      *)
(* string payload (string value, object identity), w a wrapper instance id.  *)
(* Callbacks are symbolic terms: a base view and the sequence of decorators  *)
(* wrapped around it, outermost first.                                       *)
(*                                                                           *)
(* Attribute reads are made by threads.  A read that finds the wrapper's     *)
(* cache empty calls import_module, which blocks: the call and its return    *)
(* are separate steps, and other threads run in between.  Threads are        *)
(* interchangeable: the state keeps the bag of the reads that are inside     *)
(* import_module.                                                            *)
(***************************************************************************)
EXTENDS Integers, Sequences, FiniteSets, Bags, TLC

VARIABLES heap, inc, rd, ga, threads

vars == <<heap, inc, rd, ga, threads>>

----------------------------------------------------------------------------
(* Bounds *)

MaxWrappers == 3
MaxImportCalls == 2
\* nested evaluations of a property the interpreter allows before it raises
\* RecursionError (sys.getrecursionlimit(), scaled down)
RecursionLimit == 3

----------------------------------------------------------------------------
(* Python values *)

PyNone == [t |-> "none", v |-> "", w |-> 0]
PyStr(s) == [t |-> "str", v |-> s, w |-> 0]
PyObj(id) == [t |-> "obj", v |-> id, w |-> 0]
PyWrapper(i) == [t |-> "wrapper", v |-> "", w |-> i]

\* isinstance(x, six.string_types)
IsString(x) == x.t = "str"

\* Python truth value of a value used in `if x` / `x or y`
Truthy(x) == ~(x.t = "none") /\ ~(x.t = "str" /\ x.v = "")

\* Python `a or b`
PyOr(a, b) == IF Truthy(a) THEN a ELSE b

----------------------------------------------------------------------------
(* Callbacks and decorators *)

View(base, wraps) == [base |-> base, wraps |-> wraps]
NoCallback == View("", <<>>)

\* decorator(callback): the decorator becomes the outermost wrapper
ApplyDecorator(decorator, callback) ==
    [callback EXCEPT !.wraps = <<decorator>> \o @]

\* A decorators argument: a single callable (not iterable) or a list
DecCallable(d) == [kind |-> "callable", fn |-> d, items |-> <<>>]
DecList(ds) == [kind |-> "list", fn |-> "", items |-> ds]

----------------------------------------------------------------------------
(* Host framework pattern nodes *)

RegexURLPattern(regex, callback, default_args, name) ==
    [kind |-> "leaf", regex |-> regex, callback |-> callback,
     default_args |-> default_args, name |-> name,
     urlconf_name |-> PyNone, default_kwargs |-> "",
     app_name |-> PyNone, namespace |-> PyNone]

RegexURLResolver(regex, urlconf_name, default_kwargs, app_name, namespace) ==
    [kind |-> "resolver", regex |-> regex, callback |-> NoCallback,
     default_args |-> "", name |-> "",
     urlconf_name |-> urlconf_name, default_kwargs |-> default_kwargs,
     app_name |-> app_name, namespace |-> namespace]

----------------------------------------------------------------------------
(* The URL configurations of the process: module objects and the import     *)
(* table.  root.urls -> sub.urls -> a bare pattern list -> a missing module *)

RootPatterns ==
    << RegexURLPattern("^$", View("home", <<>>), "{}", "home"),
       RegexURLResolver("^sub/", PyStr("sub.urls"), "{k:1}",
                        PyStr("subapp"), PyStr("subns")),
       RegexURLPattern("^about/$", View("about", <<"csrf">>), "{a:1}", "about") >>

SubPatterns ==
    << RegexURLResolver("^list/", PyObj("pat_list"), "{}", PyNone, PyStr("listns")),
       RegexURLPattern("^s/$", View("sub_view", <<>>), "{}", "") >>

ListPatterns ==
    << RegexURLPattern("^i/$", View("item", <<>>), "{i:2}", "item"),
       RegexURLResolver("^gone/", PyStr("missing.urls"), "{}", PyNone, PyNone) >>

\* the urlpatterns attribute of a module object (<<>> when it has none)
ObjUrlpatterns(id) ==
    CASE id = "root_mod" -> RootPatterns
      [] id = "sub_mod" -> SubPatterns
      [] OTHER -> <<>>

\* hasattr(obj, "urlpatterns")
HasUrlpatterns(id) == id \in {"root_mod", "sub_mod"}

\* the object is itself an iterable of patterns
IsIterable(id) == id = "pat_list"

ObjItems(id) == IF id = "pat_list" THEN ListPatterns ELSE <<>>

\* docstring of the built-in list type
ListDoc ==
    PyStr("Built-in mutable sequence.\n\nIf no argument is given, the constructor creates a new empty list.\nThe argument must be an iterable if specified.")

\* the names every object inherits from object
ObjectAttrs ==
    {"__class__", "__delattr__", "__dir__", "__doc__", "__eq__", "__format__",
     "__ge__", "__getattribute__", "__getstate__", "__gt__", "__hash__",
     "__init__", "__init_subclass__", "__le__", "__lt__", "__ne__", "__new__",
     "__reduce__", "__reduce_ex__", "__repr__", "__setattr__", "__sizeof__",
     "__str__", "__subclasshook__"}

\* the type of an underlying object
TypeOf(id) == IF id = "pat_list" THEN "list" ELSE "module"

PyType(name) == [t |-> "type", v |-> name, w |-> 0]

\* a Python value of which only the type and the name it was read under matter
PyValue(type, name) == [t |-> "python " \o type, v |-> name, w |-> 0]

\* what every module object holds, and what the import system adds to a
\* module it loaded from a file
ModuleAttrs == {"__name__", "__doc__", "__package__", "__loader__", "__spec__",
                "__annotations__"}
ImportedAttrs == {"__file__", "__cached__", "__builtins__"}

\* the list type's own attributes
ListAttrs ==
    {"__add__", "__class_getitem__", "__contains__", "__delitem__", "__doc__",
     "__eq__", "__ge__", "__getattribute__", "__getitem__", "__gt__",
     "__hash__", "__iadd__", "__imul__", "__init__", "__iter__", "__le__",
     "__len__", "__lt__", "__mul__", "__ne__", "__new__", "__repr__",
     "__reversed__", "__rmul__", "__setitem__", "__sizeof__", "append",
     "clear", "copy", "count", "extend", "index", "insert", "pop", "remove",
     "reverse", "sort"}

\* the module attributes of a module named pkg.urls loaded from pkg/urls.py
\* (paths relative to the sys.path entry) with docstring doc
ImportedModuleAttr(pkg, doc, n) ==
    CASE n = "__name__" -> PyStr(pkg \o ".urls")
      [] n = "__doc__" -> doc
      [] n = "__package__" -> PyStr(pkg)
      [] n = "__loader__" -> PyValue("SourceFileLoader", n)
      [] n = "__spec__" -> PyValue("ModuleSpec", n)
      [] n = "__file__" -> PyStr(pkg \o "/urls.py")
      [] n = "__cached__" -> PyStr(pkg \o "/__pycache__/urls.cpython-311.pyc")
      [] OTHER -> [t |-> "dict", v |-> n, w |-> 0]

\* what the urlconf modules and the pattern list (through its type) define
\* themselves, urlpatterns apart; a module without a docstring has __doc__
\* None, a module made by types.ModuleType has no package, loader or spec
DefinedAttrs(id) ==
    CASE id = "root_mod" ->
           [n \in {"handler404", "app_name", "decorators"}
                  \cup ModuleAttrs \cup ImportedAttrs |->
              CASE n = "handler404" -> PyObj("custom_404")
                [] n = "app_name" -> PyStr("rootapp")
                [] n = "decorators" -> PyStr("module_level_decorators")
                [] OTHER -> ImportedModuleAttr("root", PyStr("root urls doc"), n)]
      [] id = "sub_mod" ->
           [n \in {"handler500"} \cup ModuleAttrs \cup ImportedAttrs |->
              CASE n = "handler500" -> PyObj("custom_500")
                [] OTHER -> ImportedModuleAttr("sub", PyNone, n)]
      [] id = "pat_list" ->
           [n \in ListAttrs |->
              CASE n = "__doc__" -> ListDoc
                [] n = "__hash__" -> PyNone
                [] OTHER -> [t |-> "list method", v |-> n, w |-> 0]]
      [] OTHER ->
           [n \in ModuleAttrs |->
              CASE n = "__name__" -> PyStr("bare_mod")
                [] n = "__annotations__" -> [t |-> "dict", v |-> n, w |-> 0]
                [] OTHER -> PyNone]

\* the attributes of an underlying object: the ones it defines, urlpatterns
\* and __dict__ where it has them, and the ones inherited from object (bound
\* to this object, of this object's type)
AttrsOf(id) ==
    LET own == DefinedAttrs(id)
        names == DOMAIN own \cup ObjectAttrs
                 \cup (IF HasUrlpatterns(id) THEN {"urlpatterns"} ELSE {})
                 \cup (IF TypeOf(id) = "module" THEN {"__dict__"} ELSE {})
    IN [n \in names |->
          CASE n \in DOMAIN own -> own[n]
            [] n = "urlpatterns" -> [t |-> "list", v |-> "urlpatterns", w |-> 0]
            [] n = "__dict__" -> [t |-> "dict", v |-> "module namespace", w |-> 0]
            [] n = "__class__" -> PyType(TypeOf(id))
            [] OTHER -> [t |-> TypeOf(id) \o " method", v |-> n, w |-> 0]]

\* the underlying objects of the urlconf references
Objects == {"root_mod", "sub_mod", "pat_list", "bare_mod"}

AttrsTable == [id \in Objects |-> AttrsOf(id)]

ObjAttrs(id) == AttrsTable[id]

ImportableModules == {"root.urls", "sub.urls"}

ModuleObject(name) == IF name = "root.urls" THEN "root_mod" ELSE "sub_mod"

\* result of a Python expression: a value or a raised exception
Ok(val) == [ok |-> TRUE, exc |-> "", val |-> val]
Raise(exc) == [ok |-> FALSE, exc |-> exc, val |-> PyNone]

\* module names that begin with a dot
RelativeNames == {".urls"}

\* importlib.import_module(name), called without a package: a name that is
\* not a string fails in name.startswith before anything is imported, a
\* relative name needs the package, the empty name is refused, and a path
\* that names no module raises ImportError (ModuleNotFoundError)
import_module(name) ==
    IF ~IsString(name) THEN Raise("AttributeError")
    ELSE IF name.v \in RelativeNames THEN Raise("TypeError")
    ELSE IF name.v = "" THEN Raise("ValueError")
    ELSE IF name.v \in ImportableModules THEN Ok(PyObj(ModuleObject(name.v)))
    ELSE Raise("ImportError")

----------------------------------------------------------------------------
(* DecoratedPatterns *)

\* A wrapper instance.  urlconf_name, decorators and cache (_urlconf_module)
\* are the instance attributes; the other fields are history: how often
\* import_module was called / returned a module for it, whether one of these
\* calls began while another was in flight, and which wrapper's urlpatterns
\* (and which pattern of it) constructed it (0: decorator_include).
Wrapper(urlconf_name, decorators, cache, importCalls) ==
    [urlconf_name |-> urlconf_name, decorators |-> decorators, cache |-> cache,
     importCalls |-> importCalls, importOK |-> 0, overlap |-> FALSE,
     parent |-> 0, slot |-> 0]

\* __init__ resolving the module at construction (not what the code does)
DecoratedPatterns_Eager(urlconf_name, decorators) ==
    Wrapper(urlconf_name,
            IF decorators.kind = "list" THEN decorators ELSE DecList(<<decorators.fn>>),
            IF ~IsString(urlconf_name) THEN urlconf_name
            ELSE import_module(urlconf_name).val,
            IF IsString(urlconf_name) THEN 1 ELSE 0)

\* __init__
DecoratedPatterns(urlconf_name, decorators) ==
    Wrapper(urlconf_name,
            IF decorators.kind = "list" THEN decorators ELSE DecList(<<decorators.fn>>),
            IF ~IsString(urlconf_name) THEN urlconf_name ELSE PyNone,
            0)

\* for decorator in self.decorators: callback = decorator(callback)
RECURSIVE ApplyForward(_, _)
ApplyForward(decorators, callback) ==
    IF decorators = <<>> THEN callback
    ELSE ApplyForward(Tail(decorators), ApplyDecorator(Head(decorators), callback))

\* for decorator in reversed(self.decorators): callback = decorator(callback)
RECURSIVE ApplyReversed(_, _)
ApplyReversed(decorators, callback) ==
    IF decorators = <<>> THEN callback
    ELSE ApplyReversed(SubSeq(decorators, 1, Len(decorators) - 1),
                       ApplyDecorator(decorators[Len(decorators)], callback))

\* decorate_pattern passing the resolver's namespace and app_name in the
\* wrong positions (not what the code does)
decorate_pattern_Swapped(self, pattern, newId) ==
    IF pattern.kind = "resolver"
    THEN [decorated |-> RegexURLResolver(pattern.regex, PyWrapper(newId),
                                         pattern.default_kwargs,
                                         pattern.namespace, pattern.app_name),
          created |-> <<DecoratedPatterns(pattern.urlconf_name, self.decorators)>>]
    ELSE [decorated |-> RegexURLPattern(pattern.regex,
                            ApplyReversed(self.decorators.items, pattern.callback),
                            pattern.default_args, pattern.name),
          created |-> <<>>]

\* decorate_pattern: the decorated node and the wrapper it constructs (if any);
\* newId is the identity the new wrapper gets
decorate_pattern(self, pattern, newId) ==
    IF pattern.kind = "resolver"
    THEN LET regex == pattern.regex
             urlconf_module == pattern.urlconf_name
             default_kwargs == pattern.default_kwargs
             namespace == pattern.namespace
             app_name == pattern.app_name
             urlconf == DecoratedPatterns(urlconf_module, self.decorators)
         IN [decorated |-> RegexURLResolver(regex, PyWrapper(newId), default_kwargs,
                                            app_name, namespace),
             created |-> <<urlconf>>]
    ELSE [decorated |-> RegexURLPattern(pattern.regex,
                            ApplyReversed(self.decorators.items, pattern.callback),
                            pattern.default_args, pattern.name),
          created |-> <<>>]

\* the decorated list built back to front (not what the code does)
RECURSIVE DecorateAll_Prepend(_, _, _)
DecorateAll_Prepend(self, patterns, base) ==
    IF patterns = <<>> THEN [pats |-> <<>>, created |-> <<>>]
    ELSE LET n == Len(patterns)
             front == DecorateAll_Prepend(self, SubSeq(patterns, 1, n - 1), base)
             d == decorate_pattern(self, patterns[n], base + Len(front.created) + 1)
         IN [pats |-> <<d.decorated>> \o front.pats,
             created |-> front.created \o d.created]

\* [self.decorate_pattern(pattern) for pattern in patterns]; wrappers are
\* constructed in list order and get the identities base+1, base+2, ...
RECURSIVE DecorateAll(_, _, _)
DecorateAll(self, patterns, base) ==
    IF patterns = <<>> THEN [pats |-> <<>>, created |-> <<>>]
    ELSE LET n == Len(patterns)
             front == DecorateAll(self, SubSeq(patterns, 1, n - 1), base)
             d == decorate_pattern(self, patterns[n], base + Len(front.created) + 1)
         IN [pats |-> Append(front.pats, d.decorated),
             created |-> front.created \o d.created]

\* a cache test that sends every access of a string reference to
\* import_module (not what the code does)
needs_import_Always(self) ==
    self.cache = PyNone \/ IsString(self.urlconf_name)

\* if self._urlconf_module is None
needs_import(self) == self.cache = PyNone

\* import_module(self.urlconf_name) is called; concurrent: another call for
\* this wrapper has not returned yet
begin_import(self, concurrent) ==
    [self EXCEPT !.importCalls = @ + 1, !.overlap = @ \/ concurrent]

\* import_module returns r: self._urlconf_module = <module>, then
\* return self._urlconf_module; an exception propagates, nothing is stored
end_import(self, r) ==
    [self |-> [self EXCEPT !.importOK = IF r.ok THEN @ + 1 ELSE @,
                           !.cache = IF r.ok THEN r.val ELSE @],
     res |-> r]

\* return self._urlconf_module when the cache test fails
cached_module(self) == [self |-> self, res |-> Ok(self.cache)]

\* _get_urlconf_module run without interruption: the wrapper after the
\* access and the value or exception
get_urlconf_module(self) ==
    IF needs_import(self)
    THEN end_import(begin_import(self, FALSE), import_module(self.urlconf_name))
    ELSE cached_module(self)

\* self.urlconf_module, the property: an AttributeError that leaves the
\* getter makes attribute lookup call __getattr__("urlconf_module"), which
\* evaluates self.urlconf_module again, until the recursion limit
RECURSIVE urlconf_module_property(_, _)
urlconf_module_property(self, depth) ==
    IF depth >= RecursionLimit
    THEN [self |-> self, res |-> Raise("RecursionError")]
    ELSE LET a == get_urlconf_module(self)
         IN IF ~a.res.ok /\ a.res.exc = "AttributeError"
            THEN urlconf_module_property(a.self, depth + 1)
            ELSE a

\* getattr(module_object, name)
getattr(obj, name) ==
    IF name \in DOMAIN ObjAttrs(obj.v) THEN Ok(ObjAttrs(obj.v)[name])
    ELSE Raise("AttributeError")

\* __getattr__ returning the wrapper's decorators for every name (not the code)
dunder_getattr_Own(a1, name) ==
    [self |-> a1.self, res |-> Ok([t |-> "list", v |-> "self.decorators", w |-> 0])]

\* __getattr__: return getattr(self.urlconf_module, name); a1 is the outcome
\* of self.urlconf_module
dunder_getattr(a1, name) ==
    IF a1.res.ok THEN [self |-> a1.self, res |-> getattr(a1.res.val, name)]
    ELSE a1

\* names found by normal lookup: set on the instance by __init__, bound in
\* the class body (with what a class statement adds), inherited from object
InstanceAttrs == {"urlconf_name", "decorators", "_urlconf_module"}
ClassBodyAttrs ==
    {"__init__", "decorate_pattern", "_get_urlpatterns", "urlpatterns",
     "_get_urlconf_module", "urlconf_module", "__getattr__", "__doc__",
     "__module__", "__dict__", "__weakref__"}
ClassAttrs == ClassBodyAttrs \cup ObjectAttrs

\* the class docstring as written in the source, with the line break and
\* indentation after the opening and before the closing quotes
ClassDoc ==
    PyStr("\n    A wrapper for an urlconf that applies a decorator to all its views.\n    ")

\* wrapper.<name> for a name normal lookup finds (not one of the properties):
\* __getattr__ does not run
ReadAttr(self, name) ==
    CASE name = "urlconf_name" -> Ok(self.urlconf_name)
      [] name = "_urlconf_module" -> Ok(self.cache)
      [] name = "decorators" -> Ok([t |-> "list", v |-> "self.decorators", w |-> 0])
      [] name = "__doc__" -> Ok(ClassDoc)
      [] name = "__module__" -> Ok(PyStr("decorator_include"))
      [] name = "__class__" -> Ok(PyType("DecoratedPatterns"))
      [] name = "__dict__" -> Ok([t |-> "dict", v |-> "self.__dict__", w |-> 0])
      [] name = "__weakref__" -> Ok(PyNone)
      [] OTHER -> Ok([t |-> "method", v |-> name, w |-> 0])

PatternsResult(self, ok, exc, pats, created) ==
    [self |-> self, ok |-> ok, exc |-> exc, pats |-> pats, created |-> created]

\* _get_urlpatterns (the urlpatterns property): the wrapper after the access,
\* the decorated list or the exception, and the wrappers constructed; a1 is
\* the outcome of the first self.urlconf_module
get_urlpatterns(a1, base) ==
    IF ~a1.res.ok
    THEN PatternsResult(a1.self, FALSE, a1.res.exc, <<>>, <<>>)
    ELSE IF HasUrlpatterns(a1.res.val.v)
    THEN LET d == DecorateAll(a1.self, ObjUrlpatterns(a1.res.val.v), base)
         IN PatternsResult(a1.self, TRUE, "", d.pats, d.created)
    ELSE \* except AttributeError: patterns = self.urlconf_module
         LET a2 == urlconf_module_property(a1.self, 0)
         IN IF ~a2.res.ok
            THEN PatternsResult(a2.self, FALSE, a2.res.exc, <<>>, <<>>)
            ELSE IF ~IsIterable(a2.res.val.v)
            THEN PatternsResult(a2.self, FALSE, "TypeError", <<>>, <<>>)
            ELSE LET d == DecorateAll(a2.self, ObjItems(a2.res.val.v), base)
                 IN PatternsResult(a2.self, TRUE, "", d.pats, d.created)

----------------------------------------------------------------------------
(* decorator_include *)

\* the include target: a single value or a tuple of values
Single(x) == [isTuple |-> FALSE, value |-> x, items |-> <<>>]
Tuple(xs) == [isTuple |-> TRUE, value |-> PyNone, items |-> xs]

NoWrapper == Wrapper(PyNone, DecList(<<>>), PyNone, 0)

IncludeError(exc, msg) ==
    [ok |-> FALSE, exc |-> exc, msg |-> msg, urlconf |-> NoWrapper,
     app_name |-> PyNone, namespace |-> PyNone]

\* lines 102-104, with `namespace or app_name` replaced by `app_name or
\* namespace` (not what the code does)
IncludeReturn_AppFirst(urlconf, decorators, namespace, app_name) ==
    [ok |-> TRUE, exc |-> "", msg |-> "",
     urlconf |-> DecoratedPatterns(urlconf, decorators),
     app_name |-> app_name, namespace |-> PyOr(app_name, namespace)]

\* lines 102-104: build the wrapper, default the namespace, return the triple
IncludeReturn(urlconf, decorators, namespace, app_name) ==
    [ok |-> TRUE, exc |-> "", msg |-> "",
     urlconf |-> DecoratedPatterns(urlconf, decorators),
     app_name |-> app_name, namespace |-> PyOr(namespace, app_name)]

\* decorator_include without the app_name check of lines 83-84 (not what the
\* code does)
decorator_include_NoAppCheck(decorators, arg, namespace, app_name) ==
    IF arg.isTuple
    THEN IF Len(arg.items) = 2
         THEN IncludeReturn(arg.items[1], decorators, namespace, arg.items[2])
         ELSE IF Truthy(namespace)
         THEN IncludeError("ImproperlyConfigured",
                           "Cannot override the namespace for a dynamic module that provides a namespace")
         ELSE IF Len(arg.items) = 3
         THEN IncludeReturn(arg.items[1], decorators, arg.items[3], arg.items[2])
         ELSE IncludeError("ValueError", "unpack")
    ELSE IncludeReturn(arg.value, decorators, namespace, app_name)

\* decorator_include with the explicit namespace silently winning over a
\* 3-tuple's instead of the check of lines 93-96 (not what the code does)
decorator_include_Override(decorators, arg, namespace, app_name) ==
    IF Truthy(app_name) /\ ~Truthy(namespace)
    THEN IncludeError("ValueError", "Must specify a namespace if specifying app_name.")
    ELSE IF arg.isTuple
    THEN IF Len(arg.items) = 2
         THEN IncludeReturn(arg.items[1], decorators, namespace, arg.items[2])
         ELSE IF Len(arg.items) = 3
         THEN IncludeReturn(arg.items[1], decorators,
                            PyOr(namespace, arg.items[3]), arg.items[2])
         ELSE IncludeError("ValueError", "unpack")
    ELSE IncludeReturn(arg.value, decorators, namespace, app_name)

\* decorator_include raising the conflict error only for 3-tuples, so that a
\* tuple of any other length always ends in the unpacking error (not the code)
decorator_include_UnpackFirst(decorators, arg, namespace, app_name) ==
    IF Truthy(app_name) /\ ~Truthy(namespace)
    THEN IncludeError("ValueError", "Must specify a namespace if specifying app_name.")
    ELSE IF arg.isTuple
    THEN IF Len(arg.items) = 2
         THEN IncludeReturn(arg.items[1], decorators, namespace, arg.items[2])
         ELSE IF Len(arg.items) # 3
         THEN IncludeError("ValueError", "unpack")
         ELSE IF Truthy(namespace)
         THEN IncludeError("ImproperlyConfigured",
                           "Cannot override the namespace for a dynamic module that provides a namespace")
         ELSE IncludeReturn(arg.items[1], decorators, arg.items[3], arg.items[2])
    ELSE IncludeReturn(arg.value, decorators, namespace, app_name)

\* decorator_include(decorators, arg, namespace=None, app_name=None)
decorator_include(decorators, arg, namespace, app_name) ==
    IF Truthy(app_name) /\ ~Truthy(namespace)
    THEN IncludeError("ValueError", "Must specify a namespace if specifying app_name.")
    ELSE IF arg.isTuple
    THEN IF Len(arg.items) = 2
         THEN \* urlconf, app_name = arg
              IncludeReturn(arg.items[1], decorators, namespace, arg.items[2])
         ELSE \* except ValueError
              IF Truthy(namespace)
              THEN IncludeError("ImproperlyConfigured",
                                "Cannot override the namespace for a dynamic module that provides a namespace")
              ELSE IF Len(arg.items) = 3
              THEN \* urlconf, app_name, namespace = arg
                   IncludeReturn(arg.items[1], decorators, arg.items[3], arg.items[2])
              ELSE IncludeError("ValueError", "unpack")
    ELSE IncludeReturn(arg.value, decorators, namespace, app_name)

----------------------------------------------------------------------------
(* Inputs *)

DecoratorInputs ==
    {DecCallable("d1")} \cup
    {DecList(ds) : ds \in {<<>>, <<"d1">>, <<"d1", "d2">>, <<"d2", "d1">>}}

\* values given as namespace / app_name
Names == {PyNone, PyStr(""), PyStr("app"), PyStr("ns")}

\* urlconf references: module paths (one names no module, one is relative,
\* one is empty), a list of patterns, a module object without urlpatterns,
\* None
Urlconfs == {PyStr("root.urls"), PyStr("missing.urls"), PyStr(".urls"),
             PyStr(""), PyObj("pat_list"), PyObj("bare_mod"), PyNone}

TupleNames == {PyNone, PyStr("tapp"), PyStr("tns")}

IncludeArgs ==
    {Single(u) : u \in Urlconfs} \cup
    {Tuple(<<>>)} \cup
    {Tuple(<<u>>) : u \in {PyStr("root.urls")}} \cup
    {Tuple(<<u, a>>) : u \in {PyStr("root.urls"), PyStr("missing.urls")},
                       a \in TupleNames} \cup
    {Tuple(<<u, a, n>>) : u \in {PyStr("root.urls")},
                          a \in TupleNames, n \in TupleNames} \cup
    {Tuple(<<u, a, n, PyStr("x")>>) : u \in {PyStr("root.urls")},
                                     a \in {PyStr("tapp")}, n \in {PyStr("tns")}}

\* attribute names read on a wrapper: two that normal lookup does not find
\* (one the root module defines, one no module defines) and four it finds:
\* on the instance, in the class body (two), inherited from object
AttrNames == {"handler404", "nope", "decorators", "__doc__", "__getattr__",
              "__class__"}

\* the threads that read wrapper attributes
Threads == {"T1", "T2"}

----------------------------------------------------------------------------
(* State *)

NoInclude ==
    [called |-> FALSE, decorators |-> DecList(<<>>), arg |-> Single(PyNone),
     namespace |-> PyNone, app_name |-> PyNone,
     ok |-> FALSE, exc |-> "", msg |-> "", wrapper |-> 0,
     r_app_name |-> PyNone, r_namespace |-> PyNone]

NoRead == [w |-> 0, base |-> 0, ok |-> FALSE, exc |-> "", pats |-> <<>>]

NoGet == [w |-> 0, name |-> "", ok |-> FALSE, exc |-> "", val |-> PyNone]

\* a thread inside import_module, called by the read op (of attribute name)
\* of wrapper w
Importing(w, op, name) == [w |-> w, op |-> op, name |-> name]

\* some thread is outside every read
SomeIdle == BagCardinality(threads) < Cardinality(Threads)

\* what a call of decorator_include was given and what it returned or raised
IncludeRecord(decorators, arg, namespace, app_name, r, id) ==
    [called |-> TRUE, decorators |-> decorators, arg |-> arg,
     namespace |-> namespace, app_name |-> app_name,
     ok |-> r.ok, exc |-> r.exc, msg |-> r.msg,
     wrapper |-> IF r.ok THEN id ELSE 0,
     r_app_name |-> r.app_name, r_namespace |-> r.namespace]

\* a call of decorator_include
Include(decorators, arg, namespace, app_name) ==
    /\ Len(heap) < MaxWrappers
    /\ LET r == decorator_include(decorators, arg, namespace, app_name)
       IN /\ heap' = IF r.ok THEN Append(heap, r.urlconf) ELSE heap
          /\ inc' = IncludeRecord(decorators, arg, namespace, app_name, r, Len(heap) + 1)
    /\ rd' = NoRead
    /\ ga' = NoGet
    /\ UNCHANGED threads

\* index of the pattern of a read's result that refers to wrapper id
SlotOf(pats, id) ==
    CHOOSE k \in 1..Len(pats) : pats[k].kind = "resolver" /\ pats[k].urlconf_name = PyWrapper(id)

\* the rest of a read of wrapper w once its first self.urlconf_module has
\* the outcome a1
Finish(w, op, name, a1) ==
    /\ inc' = NoInclude
    /\ IF op = "urlpatterns"
       THEN LET base == Len(heap)
                r == get_urlpatterns(a1, base)
                new == [k \in 1..Len(r.created) |->
                          [r.created[k] EXCEPT !.parent = w,
                                               !.slot = SlotOf(r.pats, base + k)]]
            IN /\ base + Len(r.created) <= MaxWrappers
               /\ heap' = [heap EXCEPT ![w] = r.self] \o new
               /\ rd' = [w |-> w, base |-> base, ok |-> r.ok, exc |-> r.exc,
                         pats |-> r.pats]
               /\ ga' = NoGet
       ELSE LET r == IF op = "urlconf_module" THEN a1 ELSE dunder_getattr(a1, name)
            IN /\ heap' = [heap EXCEPT ![w] = r.self]
               /\ ga' = [w |-> w, name |-> name, ok |-> r.res.ok,
                         exc |-> r.res.exc, val |-> r.res.val]
               /\ rd' = NoRead

\* an idle thread starts a read of wrapper w that evaluates
\* self.urlconf_module: with an empty cache and a module path it calls
\* import_module and blocks there; otherwise the read runs to its end (over
\* None import_module raises at once, nothing is imported or stored)
Access(w, op, name) ==
    /\ SomeIdle
    /\ w \in DOMAIN heap
    /\ heap[w].urlconf_name = PyNone => heap[w].importCalls < MaxImportCalls
    /\ IF needs_import(heap[w]) /\ IsString(heap[w].urlconf_name)
       THEN /\ heap[w].importCalls < MaxImportCalls
            /\ heap' = [heap EXCEPT ![w] =
                          begin_import(@, \E p \in BagToSet(threads) : p.w = w)]
            /\ threads' = threads (+) SetToBag({Importing(w, op, name)})
            /\ inc' = NoInclude
            /\ rd' = NoRead
            /\ ga' = NoGet
       ELSE /\ Finish(w, op, name, urlconf_module_property(heap[w], 0))
            /\ UNCHANGED threads

\* wrapper w's urlpatterns is read
ReadUrlpatterns(w) == Access(w, "urlpatterns", "")

\* wrapper w's urlconf_module is read
ReadUrlconfModule(w) == Access(w, "urlconf_module", "urlconf_module")

\* another attribute of wrapper w is read
GetAttr(w, name) ==
    IF name \in InstanceAttrs \cup ClassAttrs
    THEN /\ SomeIdle
         /\ w \in DOMAIN heap
         /\ LET r == ReadAttr(heap[w], name)
            IN ga' = [w |-> w, name |-> name, ok |-> r.ok, exc |-> r.exc,
                      val |-> r.val]
         /\ inc' = NoInclude
         /\ rd' = NoRead
         /\ UNCHANGED <<heap, threads>>
    ELSE Access(w, "getattr", name)

\* the import_module call of the blocked read p returns or raises, and the
\* read goes on to its end
ImportReturn(p) ==
    /\ BagIn(p, threads)
    /\ LET a1 == end_import(heap[p.w], import_module(heap[p.w].urlconf_name))
       IN Finish(p.w, p.op, p.name, a1)
    /\ threads' = threads (-) SetToBag({p})

\* the include calls that build the wrapper a traversal starts from
RootArgs ==
    {Single(u) : u \in Urlconfs} \cup
    {Tuple(<<PyStr("root.urls"), PyStr("tapp")>>),
     Tuple(<<PyStr("sub.urls"), PyStr("tapp"), PyStr("tns")>>)}

RootNames == {PyNone, PyStr("ns")}

RootDecorators == {DecCallable("d1"), DecList(<<>>), DecList(<<"d1", "d2">>)}

\* the state after a successful decorator_include: the returned wrapper is
\* held by the route table
Init ==
    \E d \in RootDecorators, a \in RootArgs, n \in RootNames, an \in RootNames :
       LET r == decorator_include(d, a, n, an)
       IN /\ r.ok
          /\ heap = <<r.urlconf>>
          /\ inc = IncludeRecord(d, a, n, an, r, 1)
          /\ rd = NoRead
          /\ ga = NoGet
          /\ threads = EmptyBag

Next ==
    \/ \E w \in 1..MaxWrappers : ReadUrlpatterns(w)
    \/ \E w \in 1..MaxWrappers : ReadUrlconfModule(w)
    \/ \E w \in 1..MaxWrappers, name \in AttrNames : GetAttr(w, name)
    \/ \E p \in BagToSet(threads) : ImportReturn(p)

Spec == Init /\ [][Next]_vars

\* decorator_include as a function of its arguments: every argument
\* combination is called once, on an empty heap
InitInclude ==
    /\ heap = <<>>
    /\ inc \in {[NoInclude EXCEPT !.decorators = d, !.arg = a,
                                  !.namespace = n, !.app_name = an] :
                  d \in DecoratorInputs, a \in IncludeArgs, n \in Names, an \in Names}
    /\ rd = NoRead
    /\ ga = NoGet
    /\ threads = EmptyBag

NextInclude ==
    /\ ~inc.called
    /\ Include(inc.decorators, inc.arg, inc.namespace, inc.app_name)

SpecInclude == InitInclude /\ [][NextInclude]_vars

----------------------------------------------------------------------------
(* What the claims refer to *)

\* the object a urlconf reference resolves to ("" when it does not resolve)
ResolvedObj(ref) ==
    IF ref.t = "obj" THEN ref.v
    ELSE IF ref.t = "str" /\ ref.v \in ImportableModules THEN ModuleObject(ref.v)
    ELSE ""

\* the pattern list under a wrapper: the module's urlpatterns attribute if
\* present, else the resolved object itself
UnderlyingPatterns(w) ==
    LET o == ResolvedObj(heap[w].urlconf_name)
    IN IF HasUrlpatterns(o) THEN ObjUrlpatterns(o) ELSE ObjItems(o)

\* the wrapper decorator_include returned, from which w was reached
RECURSIVE RootOf(_)
RootOf(w) == IF heap[w].parent = 0 THEN w ELSE RootOf(heap[w].parent)

\* number of wrappers between w and its root
RECURSIVE Depth(_)
Depth(w) == IF heap[w].parent = 0 THEN 0 ELSE 1 + Depth(heap[w].parent)

ReadDone == rd.w # 0 /\ rd.ok

----------------------------------------------------------------------------
(* C1: decorate_pattern turns a leaf pattern into a new leaf pattern whose   *)
(* callback is d1(d2(...dn(original)...)) for the wrapper's decorator        *)
(* sequence [d1..dn] (the original callback itself for n = 0) and whose      *)
(* regex, default arguments and name are those of the input pattern.         *)
C1_LeafDecoration ==
    ReadDone =>
      LET orig == UnderlyingPatterns(rd.w)
          ds == heap[rd.w].decorators.items
      IN \A k \in DOMAIN orig \cap DOMAIN rd.pats :
           orig[k].kind = "leaf" =>
             /\ rd.pats[k].kind = "leaf"
             /\ rd.pats[k].callback.base = orig[k].callback.base
             /\ rd.pats[k].callback.wraps = ds \o orig[k].callback.wraps
             /\ (ds = <<>> => rd.pats[k].callback = orig[k].callback)
             /\ rd.pats[k].regex = orig[k].regex
             /\ rd.pats[k].default_args = orig[k].default_args
             /\ rd.pats[k].name = orig[k].name

C1_Witness ==
    /\ ReadDone
    /\ heap[rd.w].decorators.items = <<"d1", "d2">>
    /\ \E k \in DOMAIN rd.pats :
         /\ rd.pats[k].kind = "leaf"
         /\ rd.pats[k].callback = View("about", <<"d1", "d2", "csrf">>)
         /\ rd.pats[k].name = "about"

(* C2: reading urlpatterns down a tree of URL configurations, every leaf     *)
(* reached carries exactly the root wrapper's decorator set D, applied once, *)
(* and every resolver node returned refers to a new wrapper over the         *)
(* original nested urlconf reference that holds the same D, with the node's  *)
(* regex, default kwargs, app_name and namespace preserved.                  *)
C2_TreeDecoration ==
    ReadDone =>
      LET orig == UnderlyingPatterns(rd.w)
          D == heap[RootOf(rd.w)].decorators.items
      IN \A k \in DOMAIN orig \cap DOMAIN rd.pats :
           /\ orig[k].kind = "leaf" =>
                rd.pats[k].callback = View(orig[k].callback.base,
                                           D \o orig[k].callback.wraps)
           /\ orig[k].kind = "resolver" =>
                /\ rd.pats[k].kind = "resolver"
                /\ rd.pats[k].regex = orig[k].regex
                /\ rd.pats[k].default_kwargs = orig[k].default_kwargs
                /\ rd.pats[k].app_name = orig[k].app_name
                /\ rd.pats[k].namespace = orig[k].namespace
                /\ rd.pats[k].urlconf_name.t = "wrapper"
                /\ rd.pats[k].urlconf_name.w \in DOMAIN heap
                /\ rd.pats[k].urlconf_name.w > rd.base
                /\ heap[rd.pats[k].urlconf_name.w].urlconf_name = orig[k].urlconf_name
                /\ heap[rd.pats[k].urlconf_name.w].decorators.items = D

C2_Witness ==
    /\ ReadDone
    /\ Depth(rd.w) >= 1
    /\ heap[RootOf(rd.w)].decorators.items = <<"d1", "d2">>
    /\ \E k \in DOMAIN rd.pats :
         /\ rd.pats[k].kind = "leaf"
         /\ rd.pats[k].callback = View("item", <<"d1", "d2">>)
    /\ \E k \in DOMAIN rd.pats :
         /\ rd.pats[k].kind = "resolver"
         /\ heap[rd.pats[k].urlconf_name.w].urlconf_name = PyStr("missing.urls")
         /\ heap[rd.pats[k].urlconf_name.w].decorators.items = <<"d1", "d2">>

(* C10: urlpatterns is recomputed on every access: each access returns a     *)
(* sequence of the same length and order as the underlying pattern list, and *)
(* every resolver node in it refers to a wrapper constructed by this very    *)
(* access, distinct from the wrappers of earlier accesses but over the same  *)
(* nested urlconf reference and the same decorator set.                      *)
C10_RecomputedEveryAccess ==
    ReadDone =>
      LET orig == UnderlyingPatterns(rd.w)
      IN /\ Len(rd.pats) = Len(orig)
         /\ \A k \in DOMAIN rd.pats :
              /\ rd.pats[k].kind = orig[k].kind
              /\ rd.pats[k].regex = orig[k].regex
              /\ rd.pats[k].kind = "resolver" =>
                   LET id == rd.pats[k].urlconf_name.w
                   IN /\ id > rd.base
                      /\ id \in DOMAIN heap
                      /\ heap[id].parent = rd.w
                      /\ heap[id].slot = k
                      /\ \A j \in DOMAIN heap :
                           (heap[j].parent = rd.w /\ heap[j].slot = k) =>
                             /\ heap[j].urlconf_name = heap[id].urlconf_name
                             /\ heap[j].decorators = heap[id].decorators
                             /\ (j # id => j <= rd.base)
                      /\ \A k2 \in DOMAIN rd.pats :
                           (k2 # k /\ rd.pats[k2].kind = "resolver") =>
                             rd.pats[k2].urlconf_name.w # id

C10_Witness ==
    /\ ReadDone
    /\ \E k \in DOMAIN rd.pats :
         /\ rd.pats[k].kind = "resolver"
         /\ \E j \in 1..rd.base :
              /\ heap[j].parent = rd.w
              /\ heap[j].slot = k
              /\ j # rd.pats[k].urlconf_name.w
              /\ heap[j].urlconf_name = heap[rd.pats[k].urlconf_name.w].urlconf_name

(* C6 (as amended): a wrapper over a module or a list never calls            *)
(* import_module; a wrapper over None calls it but never imports or caches   *)
(* anything.  For a wrapper over a string reference whose accesses did not   *)
(* overlap (no import_module call for it began while another had not         *)
(* returned), the module is imported successfully at most once: it is cached *)
(* exactly when one import succeeded, and then import_module was called      *)
(* exactly once for it, so no access after the successful one imports again. *)
C6_ImportedOnceWhenResolved ==
    \A w \in DOMAIN heap :
       /\ ~IsString(heap[w].urlconf_name) =>
            /\ heap[w].importOK = 0
            /\ heap[w].cache = heap[w].urlconf_name
            /\ heap[w].urlconf_name # PyNone => heap[w].importCalls = 0
       /\ (IsString(heap[w].urlconf_name) /\ ~heap[w].overlap) =>
            /\ heap[w].importOK <= 1
            /\ (heap[w].cache # PyNone) = (heap[w].importOK = 1)
            /\ heap[w].importOK = 1 =>
                 /\ heap[w].importCalls = 1
                 /\ heap[w].cache = PyObj(ResolvedObj(heap[w].urlconf_name))

\* a second access (urlconf_module read after an urlpatterns read that built
\* a nested wrapper) of a wrapper over a string reference
C6_Witness ==
    /\ ga.w # 0
    /\ ga.name = "urlconf_module"
    /\ ga.ok
    /\ ga.val = PyObj("root_mod")
    /\ IsString(heap[ga.w].urlconf_name)
    /\ heap[ga.w].importCalls = 1
    /\ ~heap[ga.w].overlap
    /\ \E j \in DOMAIN heap : heap[j].parent = ga.w

(* C6 as stated: a wrapper over a non-string reference never imports a       *)
(* module (import_module never returns one for it); a                        *)
(* wrapper over a string reference imports on the first access to            *)
(* urlconf_module: once import_module has been called for it and no thread   *)
(* is inside that call any more, it holds the cached module and              *)
(* import_module has been called exactly once.                               *)
C6_Original ==
    \A w \in DOMAIN heap :
       IF IsString(heap[w].urlconf_name)
       THEN (heap[w].importCalls >= 1
               /\ ~\E p \in BagToSet(threads) : p.w = w) =>
              (heap[w].cache # PyNone /\ heap[w].importCalls = 1)
       ELSE heap[w].importOK = 0

(* C7 (as amended): reading an attribute that normal lookup does not find on *)
(* the wrapper instance, in its class or in object returns what the same     *)
(* read on the resolved underlying module returns (its value, or             *)
(* AttributeError when the module has none); when the reference does not     *)
(* resolve the read raises: ImportError over a path that names no module,    *)
(* TypeError over a relative path, ValueError over the empty path,           *)
(* RecursionError over None.  A name that normal lookup finds returns the    *)
(* wrapper's own attribute and calls import_module for nothing.              *)
C7_Delegated ==
    (ga.w # 0 /\ ga.name \notin InstanceAttrs \cup ClassAttrs) =>
      LET o == ResolvedObj(heap[ga.w].urlconf_name)
      IN IF o = ""
         THEN /\ ~ga.ok
              /\ ga.exc = CASE heap[ga.w].urlconf_name = PyNone -> "RecursionError"
                            [] heap[ga.w].urlconf_name = PyStr(".urls") -> "TypeError"
                            [] heap[ga.w].urlconf_name = PyStr("") -> "ValueError"
                            [] OTHER -> "ImportError"
         ELSE IF ga.name \in DOMAIN ObjAttrs(o)
         THEN ga.ok /\ ga.val = ObjAttrs(o)[ga.name]
         ELSE ~ga.ok /\ ga.exc = "AttributeError"

\* a read of one of the wrapper's own names
OwnRead(g) ==
    g.w # 0 /\ g.name \in (InstanceAttrs \cup ClassAttrs) \ {"urlconf_module"}

C7_Own ==
    OwnRead(ga) =>
      /\ ga.ok
      /\ ga.name = "decorators" => ga.val.t = "list"
      /\ ga.name = "__doc__" => ga.val = ClassDoc
      /\ ga.name = "__getattr__" => ga.val.t = "method"
      /\ ga.name = "__class__" => ga.val = PyType("DecoratedPatterns")

C7_OwnStep == OwnRead(ga') => heap' = heap

C7_DelegatesUnknownNames ==
    [](C7_Delegated /\ C7_Own) /\ [][C7_OwnStep]_vars

C7_Witness ==
    /\ ga.w # 0
    /\ ga.name = "handler404"
    /\ heap[ga.w].urlconf_name = PyStr("root.urls")
    /\ ga.ok
    /\ ga.val = PyObj("custom_404")

(* C7 as stated: for every attribute name other than urlpatterns the read on *)
(* the wrapper returns what the same read on the resolved module returns.    *)
C7_Original ==
    (ga.w # 0 /\ ga.name # "urlpatterns" /\ ga.name \in AttrNames
       /\ ResolvedObj(heap[ga.w].urlconf_name) # "") =>
      LET o == ResolvedObj(heap[ga.w].urlconf_name)
      IN IF ga.name \in DOMAIN ObjAttrs(o)
         THEN ga.ok /\ ga.val = ObjAttrs(o)[ga.name]
         ELSE ~ga.ok /\ ga.exc = "AttributeError"

(* C8: resolution is lazy.  The wrapper decorator_include returns, whatever  *)
(* its reference, and every wrapper decorate_pattern constructs for a        *)
(* resolver node start with nothing imported and nothing decorated; a step   *)
(* changes the import history or the cache only of the wrapper whose own     *)
(* attribute is being read (the read ended in this step, or a thread is      *)
(* inside import_module for it), so reading a parent's urlpatterns imports   *)
(* and decorates nothing of a nested urlconf.                                *)
C8_Unresolved(w) ==
    /\ heap[w].importCalls = 0
    /\ heap[w].importOK = 0
    /\ IsString(heap[w].urlconf_name) => heap[w].cache = PyNone
    /\ \A j \in DOMAIN heap : heap[j].parent # w

C8_Born ==
    /\ (inc.called /\ inc.ok) => C8_Unresolved(inc.wrapper)
    /\ ReadDone => \A id \in (rd.base + 1)..Len(heap) : C8_Unresolved(id)

C8_Step ==
    \A w \in DOMAIN heap :
       (heap'[w].importCalls # heap[w].importCalls
          \/ heap'[w].cache # heap[w].cache
          \/ \E j \in DOMAIN heap' : j \notin DOMAIN heap /\ heap'[j].parent = w)
       => \/ rd'.w = w
          \/ ga'.w = w
          \/ \E p \in BagToSet(threads') : p.w = w

C8_Lazy == []C8_Born /\ [][C8_Step]_vars

\* a parent's urlpatterns was read and the nested wrapper it built over an
\* unresolvable reference is untouched
C8_Witness ==
    /\ ReadDone
    /\ \E id \in (rd.base + 1)..Len(heap) :
         /\ heap[id].urlconf_name = PyStr("missing.urls")
         /\ heap[id].parent = rd.w
         /\ heap[id].importCalls = 0
         /\ heap[id].cache = PyNone

----------------------------------------------------------------------------
(* Claims about decorator_include, checked under SpecInclude *)

\* the call passes the check of lines 83-84
PassesAppNameCheck == ~(Truthy(inc.app_name) /\ ~Truthy(inc.namespace))

TupleOfLen(n) == inc.arg.isTuple /\ Len(inc.arg.items) = n

\* the decorator list a wrapper built from the call's decorators holds
GivenDecorators ==
    IF inc.decorators.kind = "callable" THEN <<inc.decorators.fn>>
    ELSE inc.decorators.items

(* C3 (as amended): a call that does not fail returns (wrapper, app_name,    *)
(* namespace): the wrapper is over the urlconf taken from arg with the given *)
(* decorators, app_name is the tuple's when arg is a tuple and the argument  *)
(* otherwise, and namespace is the explicit namespace if given, else the     *)
(* namespace of a 3-tuple arg if it has one, else the returned app_name.     *)
C3_ReturnedTriple ==
    (inc.called /\ inc.ok) =>
      LET urlconf == IF inc.arg.isTuple THEN inc.arg.items[1] ELSE inc.arg.value
          app == IF inc.arg.isTuple THEN inc.arg.items[2] ELSE inc.app_name
          ns == IF Truthy(inc.namespace) THEN inc.namespace
                ELSE IF TupleOfLen(3) /\ Truthy(inc.arg.items[3]) THEN inc.arg.items[3]
                ELSE app
      IN /\ inc.wrapper = Len(heap)
         /\ heap[inc.wrapper].urlconf_name = urlconf
         /\ heap[inc.wrapper].decorators.items = GivenDecorators
         /\ inc.r_app_name = app
         /\ inc.r_namespace = ns
         /\ (~inc.arg.isTuple /\ inc.namespace = PyNone /\ inc.app_name = PyNone)
              => (inc.r_app_name = PyNone /\ inc.r_namespace = PyNone)
         /\ (TupleOfLen(2) /\ ~Truthy(inc.namespace))
              => inc.r_namespace = inc.arg.items[2]

C3_Witness ==
    /\ inc.called /\ inc.ok
    /\ inc.arg = Tuple(<<PyStr("root.urls"), PyStr("tapp")>>)
    /\ inc.namespace = PyNone
    /\ inc.r_app_name = PyStr("tapp")
    /\ inc.r_namespace = PyStr("tapp")
    /\ heap[inc.wrapper].urlconf_name = PyStr("root.urls")

(* C3 as stated: the returned namespace is the explicit namespace if given,  *)
(* else the returned app_name.                                               *)
C3_Original ==
    (inc.called /\ inc.ok) =>
      inc.r_namespace = IF Truthy(inc.namespace) THEN inc.namespace
                        ELSE inc.r_app_name

(* C4: a call with an app_name argument and no namespace argument fails,     *)
(* whatever the shape of arg, and builds no wrapper; a call with both        *)
(* namespace and app_name on a non-tuple arg succeeds.                       *)
C4_AppNameNeedsNamespace ==
    inc.called =>
      /\ (Truthy(inc.app_name) /\ ~Truthy(inc.namespace)) =>
            /\ ~inc.ok
            /\ inc.exc = "ValueError"
            /\ inc.msg = "Must specify a namespace if specifying app_name."
            /\ heap = <<>>
      /\ (Truthy(inc.app_name) /\ Truthy(inc.namespace) /\ ~inc.arg.isTuple) =>
            /\ inc.ok
            /\ Len(heap) = 1
            /\ inc.r_app_name = inc.app_name
            /\ inc.r_namespace = inc.namespace

C4_Witness ==
    /\ inc.called
    /\ inc.app_name = PyStr("app")
    /\ inc.namespace = PyNone
    /\ TupleOfLen(3)
    /\ ~inc.ok
    /\ heap = <<>>

(* C5: a 3-tuple arg together with an explicit namespace argument fails with *)
(* the configuration error and overrides nothing; a 3-tuple with no explicit *)
(* namespace (and no app_name argument, which C4 rejects) succeeds, taking   *)
(* urlconf, app_name and namespace from the tuple.                           *)
C5_ThreeTuple ==
    (inc.called /\ TupleOfLen(3)) =>
      /\ Truthy(inc.namespace) =>
            /\ ~inc.ok
            /\ inc.exc = "ImproperlyConfigured"
            /\ heap = <<>>
      /\ (~Truthy(inc.namespace) /\ ~Truthy(inc.app_name)) =>
            /\ inc.ok
            /\ heap[inc.wrapper].urlconf_name = inc.arg.items[1]
            /\ inc.r_app_name = inc.arg.items[2]
            /\ inc.r_namespace = PyOr(inc.arg.items[3], inc.arg.items[2])

C5_Witness ==
    /\ inc.called
    /\ inc.arg = Tuple(<<PyStr("root.urls"), PyStr("tapp"), PyStr("tns")>>)
    /\ inc.namespace = PyStr("ns")
    /\ ~inc.ok
    /\ inc.exc = "ImproperlyConfigured"

(* C9 (as amended): a tuple arg is unpacked as a 2-tuple first and as a      *)
(* 3-tuple on failure; a tuple whose length is neither 2 nor 3 makes the     *)
(* call fail, for every namespace and app_name that pass the app_name check: *)
(* with the unpacking error when no explicit namespace is given, and with    *)
(* the namespace-conflict configuration error when one is given.             *)
C9_BadTupleLength ==
    (inc.called /\ inc.arg.isTuple /\ PassesAppNameCheck
       /\ Len(inc.arg.items) \notin {2, 3}) =>
      /\ ~inc.ok
      /\ heap = <<>>
      /\ IF Truthy(inc.namespace)
         THEN inc.exc = "ImproperlyConfigured"
         ELSE inc.exc = "ValueError" /\ inc.msg = "unpack"

C9_Witness ==
    /\ inc.called
    /\ TupleOfLen(4)
    /\ ~Truthy(inc.namespace)
    /\ ~inc.ok
    /\ inc.exc = "ValueError"
    /\ inc.msg = "unpack"

(* C9 as stated: a tuple whose length is neither 2 nor 3 fails with the      *)
(* unpacking error for every namespace and app_name passing the check.       *)
C9_Original ==
    (inc.called /\ inc.arg.isTuple /\ PassesAppNameCheck
       /\ Len(inc.arg.items) \notin {2, 3}) =>
      (~inc.ok /\ inc.exc = "ValueError" /\ inc.msg = "unpack")

====
